---- MODULE Spec2Model ----
(***************************************************************************)
(* vulnscanner: a CLI that extracts dependency coordinates from go.mod or  *)
(* pom.xml, posts them in one batch to OSS Index and prints the report.    *)
(*                                                                         *)
(* The repository holds four generations of the program:                   *)
(*   "table"  src/main.go lines 1-327      (printVulnTable)                *)
(*   "box96"  src/main.go lines 328-621    (printVulnBox, width 96)        *)
(*   "box100" src/unnamed/part_000         (printVulnBox, width 100)       *)
(*   "plain"  src/unnamed/part_001         (plain text report)             *)
(*                                                                         *)
(* Strings the code inspects character by character (go.mod lines,         *)
(* selectors, descriptions) are sequences of one-character strings.        *)
(***************************************************************************)
EXTENDS Integers, Sequences, FiniteSets, TLC

VARIABLES
    \* parseGoMod
    gmState, scanned, inRequireBlock, pkgs,
    \* parsePomXML
    pomState, pomDoc, depIdx, pomPkgs,
    \* main
    variant, osArgs, pc, lang, manifest, coords, err, posts, respBody, results, out, exitCode,
    \* severityColor
    score, sevColor,
    \* extractUpgradeSuggestion
    upVariant, desc, suggestion, fixValue, upState,
    \* wrapText
    wState, wText, wWidth, wWords, wIdx, wLine, wLines, wPrev,
    \* truncate
    trState, trVariant, trText, trMax, trResult,
    \* printReport
    rpState, rpResults, rpIdx, depCount, vulnCount, rpLines

varsGoMod == <<gmState, scanned, inRequireBlock, pkgs>>
varsPom == <<pomState, pomDoc, depIdx, pomPkgs>>
varsMain == <<variant, osArgs, pc, lang, manifest, coords, err, posts, respBody, results, out, exitCode>>
varsSeverity == <<score, sevColor>>
varsUpgrade == <<upVariant, desc, suggestion, fixValue, upState>>
varsWrap == <<wState, wText, wWidth, wWords, wIdx, wLine, wLines, wPrev>>
varsTruncate == <<trState, trVariant, trText, trMax, trResult>>
varsReport == <<rpState, rpResults, rpIdx, depCount, vulnCount, rpLines>>
vars == <<varsGoMod, varsPom, varsMain, varsSeverity, varsUpgrade, varsWrap, varsTruncate, varsReport>>

(***************************************************************************)
(* Bounds of the model.                                                    *)
(***************************************************************************)
MaxLines == 4

(***************************************************************************)
(* Character classes and string helpers (Go strings, regexp).              *)
(***************************************************************************)
\* regexp \s : [\t\n\f\r ]
WhiteSpace == {" ", "\t", "\n", "\f", "\r"}

Digits == {"0", "1", "2", "3", "4", "5", "6", "7", "8", "9"}

LowerLetters ==
    {"a", "b", "c", "d", "e", "f", "g", "h", "i", "j", "k", "l", "m",
     "n", "o", "p", "q", "r", "s", "t", "u", "v", "w", "x", "y", "z"}

UpperLetters ==
    {"A", "B", "C", "D", "E", "F", "G", "H", "I", "J", "K", "L", "M",
     "N", "O", "P", "Q", "R", "S", "T", "U", "V", "W", "X", "Y", "Z"}

\* regexp class [0-9A-Za-z\.\-\+]
VersionChars == Digits \cup LowerLetters \cup UpperLetters \cup {".", "-", "+"}

\* strings.HasPrefix
HasPrefix(s, prefix) ==
    Len(s) >= Len(prefix) /\ SubSeq(s, 1, Len(prefix)) = prefix

\* First index j >= i with s[j] outside class C (Len(s)+1 when the run reaches the end).
RunEnd(s, i, C) ==
    CHOOSE j \in i..(Len(s) + 1) :
        /\ \A k \in i..(j - 1) : s[k] \in C
        /\ (j = Len(s) + 1 \/ s[j] \notin C)

\* First index j >= i with s[j] inside class C (Len(s)+1 when there is none).
RunEndNot(s, i, C) ==
    CHOOSE j \in i..(Len(s) + 1) :
        /\ \A k \in i..(j - 1) : s[k] \notin C
        /\ (j = Len(s) + 1 \/ s[j] \in C)

RECURSIVE Flatten(_)
\* The concatenation of a sequence of sequences.
Flatten(ss) ==
    IF ss = <<>> THEN <<>>
    ELSE IF Len(ss) = 1 THEN ss[1]
    ELSE Flatten(SubSeq(ss, 1, Len(ss) \div 2)) \o Flatten(SubSeq(ss, Len(ss) \div 2 + 1, Len(ss)))

\* The sequences over S of length at most n.
SeqsUpTo(S, n) == UNION {[1..k -> S] : k \in 0..n}

(***************************************************************************)
(* parseGoMod: the go.mod line scanner.                                    *)
(***************************************************************************)
requireOpen == <<"r", "e", "q", "u", "i", "r", "e", " ", "(">>
requireWord == <<"r", "e", "q", "u", "i", "r", "e">>
closeParen == <<")">>
pkgGolang == <<"p", "k", "g", ":", "g", "o", "l", "a", "n", "g", "/">>

\* depPattern.FindStringSubmatch(line) for ^\s*([^\s]+)\s+v([0-9A-Za-z\.\-\+]+) :
\* <<whole match, group 1, group 2>>, or <<>> when the line does not match.
\* Every repetition is followed by something its class excludes, so the
\* greedy runs are the only way to match.
depPattern(line) ==
    LET n == Len(line)
        a == RunEnd(line, 1, WhiteSpace)
        b == RunEndNot(line, a, WhiteSpace)
        c == RunEnd(line, b, WhiteSpace)
        d == IF c <= n THEN RunEnd(line, c + 1, VersionChars) ELSE c
    IN  IF b > a /\ c > b /\ c <= n /\ line[c] = "v" /\ d > c + 1
        THEN <<SubSeq(line, 1, d - 1), SubSeq(line, a, b - 1), SubSeq(line, c + 1, d - 1)>>
        ELSE <<>>

\* fmt.Sprintf("pkg:golang/%s@v%s", mod, version)
GoCoordinate(mod, version) == pkgGolang \o mod \o <<"@", "v">> \o version

\* strings.HasPrefix(line, "require (")
OpensBlock(line) == HasPrefix(line, requireOpen)

ClosesBlockNever(inBlock, line) == FALSE

\* inRequireBlock && strings.HasPrefix(line, ")")
ClosesBlock(inBlock, line) == inBlock /\ HasPrefix(line, closeParen)

\* inRequireBlock || strings.HasPrefix(line, "require")
IsCandidate(inBlock, line) == inBlock \/ HasPrefix(line, requireWord)

\* One iteration of the scanner loop on state st = [inBlock, pkgs].
ScanLine(st, line) ==
    IF OpensBlock(line)
    THEN [st EXCEPT !.inBlock = TRUE]
    ELSE IF ClosesBlock(st.inBlock, line)
    THEN [st EXCEPT !.inBlock = FALSE]
    ELSE IF IsCandidate(st.inBlock, line)
    THEN LET matches == depPattern(line)
         IN  IF Len(matches) = 3
             THEN [st EXCEPT !.pkgs = Append(st.pkgs, GoCoordinate(matches[2], matches[3]))]
             ELSE st
    ELSE st

RECURSIVE ScanAll(_, _)
ScanAll(st, lines) ==
    IF lines = <<>> THEN st ELSE ScanAll(ScanLine(st, Head(lines)), Tail(lines))

\* parseGoMod on a file that opens: the coordinates of its lines.
parseGoMod(lines) == ScanAll([inBlock |-> FALSE, pkgs |-> <<>>], lines).pkgs

\* ---- go.mod lines the scanner is fed ----
ModPaths == {<<"a", "/", "b">>, <<"v", "x", ".", "i", "o">>}

EntryLine(mod, version) == <<"\t">> \o mod \o <<" ", "v">> \o version
SingleRequire(mod, version) == requireWord \o <<" ">> \o mod \o <<" ", "v">> \o version
IndirectComment == <<" ", "/", "/", " ", "i", "n", "d", "i", "r", "e", "c", "t">>

EntryLines ==
    {EntryLine(m, <<"1", ".", "2">>) : m \in ModPaths}
        \cup {EntryLine(<<"a", "/", "b">>, <<"0", "-", "r", "c", "+", "i">>) \o IndirectComment}
SingleRequireLines == {SingleRequire(m, <<"1", ".", "2">>) : m \in ModPaths}
MalformedLines == {<<"\t", "a", "/", "b", " ", "1", ".", "2">>}
CommentLines == {<<"\t", "/", "/", " ", "v", "2">>}
OtherLines == {<<>>, <<"m", "o", "d", "u", "l", "e", " ", "m">>}
CloseLines == {closeParen, closeParen \o <<" ", "/", "/", " ", "v", "2">>}

GoModLines ==
    {requireOpen} \cup CloseLines \cup EntryLines \cup SingleRequireLines
        \cup MalformedLines \cup CommentLines \cup OtherLines

IdleGoMod ==
    /\ gmState = "idle"
    /\ scanned = <<>>
    /\ inRequireBlock = FALSE
    /\ pkgs = <<>>

InitGoMod ==
    /\ gmState = "open"
    /\ scanned = <<>>
    /\ inRequireBlock = FALSE
    /\ pkgs = <<>>

\* os.Open succeeds; the scanner and the pattern are set up.
GoModOpen ==
    /\ gmState = "open"
    /\ gmState' = "scan"
    /\ UNCHANGED <<scanned, inRequireBlock, pkgs>>
    /\ UNCHANGED <<varsPom, varsMain, varsSeverity, varsUpgrade, varsWrap, varsTruncate, varsReport>>

\* os.Open fails: return nil, err.
GoModOpenFail ==
    /\ gmState = "open"
    /\ gmState' = "error"
    /\ UNCHANGED <<scanned, inRequireBlock, pkgs>>
    /\ UNCHANGED <<varsPom, varsMain, varsSeverity, varsUpgrade, varsWrap, varsTruncate, varsReport>>

\* scanner.Scan() yields a line; one pass of the loop body.
GoModScan ==
    /\ gmState = "scan"
    /\ Len(scanned) < MaxLines
    /\ \E line \in GoModLines :
        LET st == ScanLine([inBlock |-> inRequireBlock, pkgs |-> pkgs], line)
        IN  /\ scanned' = Append(scanned, line)
            /\ inRequireBlock' = st.inBlock
            /\ pkgs' = st.pkgs
    /\ UNCHANGED gmState
    /\ UNCHANGED <<varsPom, varsMain, varsSeverity, varsUpgrade, varsWrap, varsTruncate, varsReport>>

\* scanner.Scan() returns false: return pkgs, nil.
GoModReturn ==
    /\ gmState = "scan"
    /\ gmState' = "returned"
    /\ UNCHANGED <<scanned, inRequireBlock, pkgs>>
    /\ UNCHANGED <<varsPom, varsMain, varsSeverity, varsUpgrade, varsWrap, varsTruncate, varsReport>>

(***************************************************************************)
(* parsePomXML: the pom.xml document walk (etree).                         *)
(***************************************************************************)
MaxDeps == 2

Element(tag, text, children) == [tag |-> tag, text |-> text, children |-> children]

\* A nil *etree.Element.
NilElement == Element("<nil>", "", <<>>)

\* Element.SelectElements(tag): the child elements with that tag, in child order.
SelectElements(e, tag) == SelectSeq(e.children, LAMBDA c : c.tag = tag)

\* Element.SelectElement(tag): the first child element with that tag, or nil.
SelectElement(e, tag) ==
    LET found == SelectElements(e, tag)
    IN  IF found = <<>> THEN NilElement ELSE Head(found)

RECURSIVE Descendants(_)
\* etree's "//" selector: the element and all its descendants, breadth first.
Descendants(queue) ==
    IF queue = <<>> THEN <<>>
    ELSE <<Head(queue)>> \o Descendants(Tail(queue) \o Head(queue).children)

RECURSIVE ChildrenOfAll(_, _)
\* One path segment: the children with that tag of each candidate, in order.
ChildrenOfAll(candidates, tag) ==
    IF candidates = <<>> THEN <<>>
    ELSE SelectElements(Head(candidates), tag) \o ChildrenOfAll(Tail(candidates), tag)

\* doc.FindElements("//project/dependencies/dependency")
FindElements(doc) ==
    LET projects == SelectSeq(Descendants(<<doc.root>>), LAMBDA e : e.tag = "project")
        lists == ChildrenOfAll(projects, "dependencies")
    IN  ChildrenOfAll(lists, "dependency")

\* fmt.Sprintf("pkg:maven/%s/%s@%s", group.Text(), artifact.Text(), version.Text())
MavenCoordinate(group, artifact, version) ==
    <<"pkg:maven/", group, "/", artifact, "@", version>>

HasAnyChild(g, a, v) == g # NilElement \/ a # NilElement \/ v # NilElement

\* group != nil && artifact != nil && version != nil
HasAllChildren(g, a, v) == g # NilElement /\ a # NilElement /\ v # NilElement

\* One iteration of the loop over the selected dependency elements.
VisitDependency(acc, dep) ==
    LET group == SelectElement(dep, "groupId")
        artifact == SelectElement(dep, "artifactId")
        version == SelectElement(dep, "version")
    IN  IF HasAllChildren(group, artifact, version)
        THEN Append(acc, MavenCoordinate(group.text, artifact.text, version.text))
        ELSE acc

RECURSIVE VisitAll(_, _)
VisitAll(acc, deps) ==
    IF deps = <<>> THEN acc ELSE VisitAll(VisitDependency(acc, Head(deps)), Tail(deps))

\* parsePomXML on a document that reads: the coordinates of its dependencies.
parsePomXML(doc) == VisitAll(<<>>, FindElements(doc))

\* ---- pom.xml documents the parser is fed ----
GroupOpts == {<<>>, <<Element("groupId", "org.x", <<>>)>>}
ArtifactOpts ==
    {<<>>, <<Element("artifactId", "lib", <<>>)>>, <<Element("artifactId", "core", <<>>)>>}
VersionOpts == {<<>>, <<Element("version", "1.0", <<>>)>>}
ScopeOpts == {<<>>, <<Element("scope", "test", <<>>)>>}

DependencyElements ==
    {Element("dependency", "", g \o a \o v \o s) :
        g \in GroupOpts, a \in ArtifactOpts, v \in VersionOpts, s \in ScopeOpts}

\* A managed dependency: project/dependencyManagement/dependencies/dependency.
ManagedSection ==
    Element("dependencyManagement", "",
        <<Element("dependencies", "",
            <<Element("dependency", "",
                <<Element("groupId", "org.m", <<>>), Element("artifactId", "bom", <<>>),
                  Element("version", "9.9", <<>>)>>)>>)>>)

PomDocument(rootTag, managed, deps) ==
    [wellFormed |-> TRUE,
     root |-> Element(rootTag, "",
         <<Element("modelVersion", "4.0.0", <<>>)>>
             \o (IF managed THEN <<ManagedSection>> ELSE <<>>)
             \o <<Element("dependencies", "", deps)>>)]

MalformedDocument == [wellFormed |-> FALSE, root |-> NilElement]

PomDocuments ==
    {PomDocument("project", m, d) : m \in BOOLEAN, d \in SeqsUpTo(DependencyElements, MaxDeps)}
        \cup {PomDocument("settings", FALSE, d) : d \in SeqsUpTo(DependencyElements, 1)}
        \cup {MalformedDocument}

IdlePom ==
    /\ pomState = "idle"
    /\ pomDoc = MalformedDocument
    /\ depIdx = 0
    /\ pomPkgs = <<>>

InitPom ==
    /\ pomState = "read"
    /\ pomDoc \in PomDocuments
    /\ depIdx = 0
    /\ pomPkgs = <<>>

\* doc.ReadFromFile succeeds; the dependency elements are selected.
PomRead ==
    /\ pomState = "read"
    /\ pomDoc.wellFormed
    /\ pomState' = "walk"
    /\ depIdx' = 1
    /\ UNCHANGED <<pomDoc, pomPkgs>>
    /\ UNCHANGED <<varsGoMod, varsMain, varsSeverity, varsUpgrade, varsWrap, varsTruncate, varsReport>>

\* doc.ReadFromFile fails: return nil, err.
PomReadFail ==
    /\ pomState = "read"
    /\ ~pomDoc.wellFormed
    /\ pomState' = "error"
    /\ UNCHANGED <<pomDoc, depIdx, pomPkgs>>
    /\ UNCHANGED <<varsGoMod, varsMain, varsSeverity, varsUpgrade, varsWrap, varsTruncate, varsReport>>

\* One pass of the loop body, on the depIdx-th selected element.
PomVisit ==
    /\ pomState = "walk"
    /\ depIdx <= Len(FindElements(pomDoc))
    /\ pomPkgs' = VisitDependency(pomPkgs, FindElements(pomDoc)[depIdx])
    /\ depIdx' = depIdx + 1
    /\ UNCHANGED <<pomState, pomDoc>>
    /\ UNCHANGED <<varsGoMod, varsMain, varsSeverity, varsUpgrade, varsWrap, varsTruncate, varsReport>>

\* The loop is over: return pkgs, nil.
PomReturn ==
    /\ pomState = "walk"
    /\ depIdx > Len(FindElements(pomDoc))
    /\ pomState' = "returned"
    /\ UNCHANGED <<pomDoc, depIdx, pomPkgs>>
    /\ UNCHANGED <<varsGoMod, varsMain, varsSeverity, varsUpgrade, varsWrap, varsTruncate, varsReport>>

(***************************************************************************)
(* severityColor: CVSS score -> ANSI emphasis. Scores are in hundredths    *)
(* (9.0 is 900): the comparisons are against 9, 7 and 4, which floating    *)
(* point represents exactly.                                               *)
(***************************************************************************)
MaxScore == 1000

Red == "ESC[31m"
Yellow == "ESC[33m"
Reset == "ESC[0m"
Bold == "ESC[1m"

severityColorStrict(s) ==
    IF s > 900 THEN <<Red, Bold>>
    ELSE IF s > 700 THEN <<Red>>
    ELSE IF s > 400 THEN <<Yellow>>
    ELSE <<Reset>>

severityColor(s) ==
    IF s >= 900 THEN <<Red, Bold>>
    ELSE IF s >= 700 THEN <<Red>>
    ELSE IF s >= 400 THEN <<Yellow>>
    ELSE <<Reset>>

IdleSeverity ==
    /\ score = 0
    /\ sevColor = <<>>

InitSeverity ==
    /\ score \in 0..MaxScore
    /\ sevColor = <<>>

Classify ==
    /\ sevColor = <<>>
    /\ sevColor' = severityColor(score)
    /\ UNCHANGED score
    /\ UNCHANGED <<varsGoMod, varsPom, varsMain, varsUpgrade, varsWrap, varsTruncate, varsReport>>

(***************************************************************************)
(* extractUpgradeSuggestion: the upgrade hint of a description.            *)
(***************************************************************************)
MaxPieces == 3

UpperSeq ==
    <<"A", "B", "C", "D", "E", "F", "G", "H", "I", "J", "K", "L", "M",
      "N", "O", "P", "Q", "R", "S", "T", "U", "V", "W", "X", "Y", "Z">>
LowerSeq ==
    <<"a", "b", "c", "d", "e", "f", "g", "h", "i", "j", "k", "l", "m",
      "n", "o", "p", "q", "r", "s", "t", "u", "v", "w", "x", "y", "z">>

LowerChar(c) ==
    IF c \in UpperLetters
    THEN LowerSeq[CHOOSE i \in 1..Len(UpperSeq) : UpperSeq[i] = c]
    ELSE c

\* strings.ToLower
ToLower(s) == [i \in 1..Len(s) |-> LowerChar(s[i])]

\* strings.Index, counting from 1: the first position where sub occurs in s, 0 when
\* it does not occur (Go: -1).
Index(s, sub) ==
    LET at == {i \in 1..(Len(s) - Len(sub) + 1) : SubSeq(s, i, i + Len(sub) - 1) = sub}
    IN  IF at = {} THEN 0 ELSE CHOOSE i \in at : \A j \in at : i <= j

\* unicode.IsSpace (the Latin-1 spaces; the last three stand for \v, U+0085, U+00A0).
SpaceChars == WhiteSpace \cup {"<VT>", "<NEL>", "<NBSP>"}

RECURSIVE Fields(_)
\* strings.Fields: the maximal runs of non-space characters, in order.
Fields(s) ==
    LET a == RunEnd(s, 1, SpaceChars)
    IN  IF a > Len(s) THEN <<>>
        ELSE LET b == RunEndNot(s, a, SpaceChars)
             IN  <<SubSeq(s, a, b - 1)>> \o Fields(SubSeq(s, b, Len(s)))

upgradeToVersion == <<"u", "p", "g", "r", "a", "d", "e", " ", "t", "o", " ", "v", "e", "r", "s", "i", "o", "n", " ">>
upgradeTo == <<"u", "p", "g", "r", "a", "d", "e", " ", "t", "o", " ">>
fixedIn == <<"f", "i", "x", "e", "d", " ", "i", "n", " ">>
updateToVersion == <<"u", "p", "d", "a", "t", "e", " ", "t", "o", " ", "v", "e", "r", "s", "i", "o", "n", " ">>
useVersion == <<"u", "s", "e", " ", "v", "e", "r", "s", "i", "o", "n", " ">>

patternsReordered(v) ==
    IF v = "table"
    THEN <<fixedIn, upgradeToVersion, updateToVersion, useVersion>>
    ELSE <<fixedIn, upgradeToVersion, upgradeTo, updateToVersion, useVersion>>

\* The phrase list, in the order it is tried.
patterns(v) ==
    IF v = "table"
    THEN <<upgradeToVersion, fixedIn, updateToVersion, useVersion>>
    ELSE <<upgradeToVersion, upgradeTo, fixedIn, updateToVersion, useVersion>>

\* The text put before the token: "Upgrade to " or "Upgrade to version ".
suggestionPrefix(v) ==
    IF v = "table"
    THEN <<"U", "p", "g", "r", "a", "d", "e", " ", "t", "o", " ">>
    ELSE <<"U", "p", "g", "r", "a", "d", "e", " ", "t", "o", " ", "v", "e", "r", "s", "i", "o", "n", " ">>

RECURSIVE TryPatterns(_, _, _)
\* The loop over the phrases: the first phrase found with a word after it decides.
TryPatterns(lower, ps, prefix) ==
    IF ps = <<>> THEN <<>>
    ELSE LET p == Head(ps)
             idx == Index(lower, p)
         IN  IF idx # 0
             THEN LET after == SubSeq(lower, idx + Len(p), Len(lower))
                      words == Fields(after)
                  IN  IF Len(words) > 0
                      THEN prefix \o words[1]
                      ELSE TryPatterns(lower, Tail(ps), prefix)
             ELSE TryPatterns(lower, Tail(ps), prefix)

\* extractUpgradeSuggestion(desc) of generation v; <<>> is the empty string.
extractUpgradeSuggestion(v, d) == TryPatterns(ToLower(d), patterns(v), suggestionPrefix(v))

\* Escape sequences are single elements of a string; OSC-8 opens a hyperlink
\* with its target between OSC8 and ST and closes it with an empty target.
OSC8 == "ESC]8;;"
ST == "ESC\\"

\* hyperlink(text, url) of the table generation.
hyperlink(text, url) == <<OSC8>> \o url \o <<ST>> \o text \o <<OSC8, ST>>

checkLatestVersion == <<"C", "h", "e", "c", "k", " ", "l", "a", "t", "e", "s", "t", " ", "v", "e", "r", "s", "i", "o", "n", " ", "a", "t", " ", "r", "e", "f", "e", "r", "e", "n", "c", "e", " ", "U", "R", "L", ".">>
checkReferenceURL == <<"C", "h", "e", "c", "k", " ", "r", "e", "f", "e", "r", "e", "n", "c", "e", " ", "U", "R", "L">>

\* The value shown as the suggested fix when no hint was extracted.
fallbackFix(v, ref) ==
    IF v = "table" THEN hyperlink(checkReferenceURL, ref) ELSE checkLatestVersion

fallbackFixNever(v, d, ref) == extractUpgradeSuggestion(v, d)

\* The suggested fix of one vulnerability: the hint, or the fallback when the
\* hint is empty.
suggestedFix(v, d, ref) ==
    LET hint == extractUpgradeSuggestion(v, d)
    IN  IF hint # <<>> THEN hint ELSE fallbackFix(v, ref)

sampleReference == <<"h", "t", "t", "p", "s", ":", "/", "/", "x", ".", "i", "o", "/", "v", "/", "1">>

\* ---- descriptions: concatenations of these pieces ----
DescPieces ==
    {upgradeToVersion, upgradeTo, fixedIn, updateToVersion, useVersion,
     <<"F", "i", "x", "e", "d", " ", "i", "n", " ">>,
     <<"2", ".", "3", ".", "1">>, <<"1", ".", "0", " ">>, <<" ", "a", "f", "t", "e", "r", " ">>}

Descriptions == {Flatten(ps) : ps \in SeqsUpTo(DescPieces, MaxPieces)}

UpgradeVariants == {"table", "box"}

IdleUpgrade ==
    /\ upVariant = "box"
    /\ desc = <<>>
    /\ suggestion = <<>>
    /\ fixValue = <<>>
    /\ upState = "idle"

InitUpgrade ==
    /\ upVariant \in UpgradeVariants
    /\ desc \in Descriptions
    /\ suggestion = <<>>
    /\ fixValue = <<>>
    /\ upState = "call"

\* The hint is extracted and the renderer chooses the suggested-fix value.
Extract ==
    /\ upState = "call"
    /\ suggestion' = extractUpgradeSuggestion(upVariant, desc)
    /\ fixValue' = suggestedFix(upVariant, desc, sampleReference)
    /\ upState' = "returned"
    /\ UNCHANGED <<upVariant, desc>>
    /\ UNCHANGED <<varsGoMod, varsPom, varsMain, varsSeverity, varsWrap, varsTruncate, varsReport>>

(***************************************************************************)
(* wrapText: greedy word wrap.  A string is a sequence of characters; the  *)
(* element "<E9>" stands for a character of two bytes in UTF-8.            *)
(***************************************************************************)
MaxText == 5
MaxWidth == 4
MaxCalls == 2

Utf8Len(c) == IF c = "<E9>" THEN 2 ELSE 1

RECURSIVE ByteCount(_)
\* len(s): the number of bytes.
ByteCount(s) == IF s = <<>> THEN 0 ELSE Utf8Len(Head(s)) + ByteCount(Tail(s))

\* utf8.RuneCountInString(s): the number of characters.
RuneCountInString(s) == Len(s)

OverflowsAlways(line, word, width) == TRUE

\* The test of the loop: the word does not fit on the current line.
Overflows(line, word, width) ==
    RuneCountInString(line) + 1 + RuneCountInString(word) > width

\* One iteration of the loop over words[1:].
WrapWord(st, word, width) ==
    IF Overflows(st.line, word, width)
    THEN [lines |-> Append(st.lines, st.line), line |-> word]
    ELSE [lines |-> st.lines, line |-> st.line \o <<" ">> \o word]

RECURSIVE WrapWords(_, _, _)
WrapWords(st, words, width) ==
    IF words = <<>> THEN st
    ELSE WrapWords(WrapWord(st, Head(words), width), Tail(words), width)

wrapText(s, width) ==
    LET words == Fields(s)
    IN  IF Len(words) = 0 THEN << <<>> >>
        ELSE LET st == WrapWords([lines |-> <<>>, line |-> words[1]], Tail(words), width)
             IN  Append(st.lines, st.line)

\* ---- inputs ----
WrapAlphabet == {"a", "<E9>", " ", "\t"}
WrapTexts == SeqsUpTo(WrapAlphabet, MaxText)

IdleWrap ==
    /\ wState = "idle"
    /\ wText = <<>>
    /\ wWidth = 0
    /\ wWords = <<>>
    /\ wIdx = 0
    /\ wLine = <<>>
    /\ wLines = <<>>
    /\ wPrev = <<>>

InitWrap ==
    /\ wState = "call"
    /\ wText \in WrapTexts
    /\ wWidth \in 0..MaxWidth
    /\ wWords = <<>>
    /\ wIdx = 0
    /\ wLine = <<>>
    /\ wLines = <<>>
    /\ wPrev = <<>>

\* No words: the result is one empty line.
WrapNoWords ==
    /\ wState = "call"
    /\ Len(Fields(wText)) = 0
    /\ wWords' = Fields(wText)
    /\ wLines' = << <<>> >>
    /\ wState' = "returned"
    /\ UNCHANGED <<wText, wWidth, wIdx, wLine, wPrev>>
    /\ UNCHANGED <<varsGoMod, varsPom, varsMain, varsSeverity, varsUpgrade, varsTruncate, varsReport, varsReport>>

\* The first word opens the first line.
WrapFirstWord ==
    /\ wState = "call"
    /\ Len(Fields(wText)) > 0
    /\ wWords' = Fields(wText)
    /\ wLine' = Fields(wText)[1]
    /\ wIdx' = 2
    /\ wState' = "loop"
    /\ UNCHANGED <<wText, wWidth, wLines, wPrev>>
    /\ UNCHANGED <<varsGoMod, varsPom, varsMain, varsSeverity, varsUpgrade, varsTruncate, varsReport, varsReport>>

\* One more word: it joins the current line or opens the next one.
WrapNextWord ==
    /\ wState = "loop"
    /\ wIdx <= Len(wWords)
    /\ LET st == WrapWord([lines |-> wLines, line |-> wLine], wWords[wIdx], wWidth)
       IN  /\ wLines' = st.lines
           /\ wLine' = st.line
    /\ wIdx' = wIdx + 1
    /\ UNCHANGED <<wState, wText, wWidth, wWords, wPrev>>
    /\ UNCHANGED <<varsGoMod, varsPom, varsMain, varsSeverity, varsUpgrade, varsTruncate, varsReport, varsReport>>

\* The last line is appended and the lines are returned.
WrapReturn ==
    /\ wState = "loop"
    /\ wIdx > Len(wWords)
    /\ wLines' = Append(wLines, wLine)
    /\ wState' = "returned"
    /\ UNCHANGED <<wText, wWidth, wWords, wIdx, wLine, wPrev>>
    /\ UNCHANGED <<varsGoMod, varsPom, varsMain, varsSeverity, varsUpgrade, varsTruncate, varsReport, varsReport>>

\* The caller keeps the result and calls again with the same arguments; the
\* locals of the new call start afresh.
WrapCallAgain ==
    /\ wState = "returned"
    /\ Len(wPrev) + 1 < MaxCalls
    /\ wPrev' = Append(wPrev, wLines)
    /\ wWords' = <<>>
    /\ wIdx' = 0
    /\ wLine' = <<>>
    /\ wLines' = <<>>
    /\ wState' = "call"
    /\ UNCHANGED <<wText, wWidth>>
    /\ UNCHANGED <<varsGoMod, varsPom, varsMain, varsSeverity, varsUpgrade, varsTruncate, varsReport, varsReport>>

(***************************************************************************)
(* truncate: the description cut to a budget.  len(s) and s[:l] work on    *)
(* bytes, so the string is taken apart into bytes and put together again.  *)
(***************************************************************************)
MaxDesc == 6
MaxBudget == 5

ellipsis == <<".", ".", ".">>

\* The UTF-8 encoding of one character.
Utf8(c) == IF c = "<E9>" THEN <<"<C3>", "<A9>">> ELSE <<c>>

\* The bytes of a string.
Bytes(s) == Flatten([i \in 1..Len(s) |-> Utf8(s[i])])

\* The characters of a byte string as they are counted and printed: a byte
\* that is no part of a well-formed encoding is one character, U+FFFD.
Runes(b) ==
    LET starts == SelectSeq([i \in 1..Len(b) |-> i],
                            LAMBDA i : ~(b[i] = "<A9>" /\ i > 1 /\ b[i - 1] = "<C3>"))
    IN  [k \in 1..Len(starts) |->
            LET i == starts[k]
            IN  IF b[i] = "<C3>" /\ i < Len(b) /\ b[i + 1] = "<A9>" THEN "<E9>"
                ELSE IF b[i] \in {"<C3>", "<A9>"} THEN "<FFFD>"
                ELSE b[i]]

\* The number of bytes kept: l, or l - 3 in the table generation.
keptBytes(v, l) == IF v = "table" THEN l - 3 ELSE l

\* truncate(s, l) of generation v.
truncate(v, s, l) ==
    IF Len(Bytes(s)) > l
    THEN Runes(SubSeq(Bytes(s), 1, keptBytes(v, l)) \o ellipsis)
    ELSE s

\* ---- inputs ----
TruncateVariants == {"table", "box"}
TruncateTexts == SeqsUpTo({"a", "<E9>"}, MaxDesc)

IdleTruncate ==
    /\ trState = "idle"
    /\ trVariant = "box"
    /\ trText = <<>>
    /\ trMax = 0
    /\ trResult = <<>>

InitTruncate ==
    /\ trState = "call"
    /\ trVariant \in TruncateVariants
    /\ trText \in TruncateTexts
    /\ trMax \in 3..MaxBudget
    /\ trResult = <<>>

\* The string fits and is returned as it is.
TruncateKeep ==
    /\ trState = "call"
    /\ Len(Bytes(trText)) <= trMax
    /\ trResult' = truncate(trVariant, trText, trMax)
    /\ trState' = "returned"
    /\ UNCHANGED <<trVariant, trText, trMax>>
    /\ UNCHANGED <<varsGoMod, varsPom, varsMain, varsSeverity, varsUpgrade, varsWrap, varsReport, varsReport>>

\* The string is cut and the ellipsis appended.
TruncateCut ==
    /\ trState = "call"
    /\ Len(Bytes(trText)) > trMax
    /\ trResult' = truncate(trVariant, trText, trMax)
    /\ trState' = "returned"
    /\ UNCHANGED <<trVariant, trText, trMax>>
    /\ UNCHANGED <<varsGoMod, varsPom, varsMain, varsSeverity, varsUpgrade, varsWrap, varsReport, varsReport>>

(***************************************************************************)
(* printVulnBox and printRowContent (width 100): the printed lines.  A     *)
(* line is kept in three parts, the text argument of the format and what   *)
(* the format puts before and after it; escape sequences and box-drawing   *)
(* characters are single elements.                                         *)
(***************************************************************************)
hLine == "BOX-H"
vLine == "BOX-V"
tl == "BOX-TL"
tr == "BOX-TR"
bl == "BOX-BL"
br == "BOX-BR"
lJoint == "BOX-LJ"
rJoint == "BOX-RJ"
bullet == "BULLET"
Cyan == "ESC[36m"

Escapes == {Red, Yellow, Cyan, Reset, Bold, OSC8, ST}

boxWidth == 100
labelColumn == 14
continuationColumn == 16
rowMargin == 7
headerMargin == 2
headingMargin == 8
descriptionBudget == 200

Repeat(c, n) == [i \in 1..n |-> c]

\* The characters an element counts for when fmt pads: an escape sequence
\* counts with all its characters (ESC [ 3 6 m).
PaddedRunes(t) ==
    IF t \in {Reset, Bold} THEN 4
    ELSE IF t \in {Red, Yellow, Cyan} THEN 5
    ELSE 1

PaddedLen(ts) ==
    Len(ts) + 3 * Len(SelectSeq(ts, LAMBDA t : PaddedRunes(t) = 4))
            + 4 * Len(SelectSeq(ts, LAMBDA t : PaddedRunes(t) = 5))

\* The spaces %-Ns adds after its argument.
Padding(ts, n) == IF PaddedLen(ts) < n THEN Repeat(" ", n - PaddedLen(ts)) ELSE <<>>

Line(kind, label, first, pre, text, post) ==
    [kind |-> kind, label |-> label, first |-> first, pre |-> pre, text |-> text, post |-> post]

printHLine(w) == Line("top", <<>>, TRUE, <<tl>>, Repeat(hLine, w), <<tr>>)
printBLine(w) == Line("bottom", <<>>, TRUE, <<bl>>, Repeat(hLine, w), <<br>>)
printInnerHLine(w) == Line("separator", <<>>, TRUE, <<lJoint>>, Repeat(hLine, w), <<rJoint>>)

\* printRowContent(width, label, value, color): the lines of one row.
printRowContent(w, label, value, color) ==
    LET wrapWidth == w - Len(label) - rowMargin
        wrapped == wrapText(value, wrapWidth)
    IN  [i \in 1..Len(wrapped) |->
            IF i = 1
            THEN Line("row", label, TRUE,
                      <<vLine, " ", " ", " ", Bold>> \o color \o label
                          \o Padding(label, labelColumn) \o <<Reset, " ">>,
                      wrapped[i], <<Reset, " ", vLine>>)
            ELSE Line("row", label, FALSE,
                      <<vLine, " ", " ", " ">> \o Padding(<<>>, continuationColumn) \o <<" ">>,
                      wrapped[i], <<Reset, " ", vLine>>)]

DigitSeq == <<"0", "1", "2", "3", "4", "5", "6", "7", "8", "9">>

RECURSIVE Decimal(_)
Decimal(n) == IF n < 10 THEN <<DigitSeq[n + 1]>> ELSE Decimal(n \div 10) \o <<DigitSeq[(n % 10) + 1]>>

\* fmt.Sprintf("%.1f", score) of a score in hundredths that is a whole
\* number of tenths.
FormatScore(s) == Decimal(s \div 100) \o <<".">> \o Decimal((s % 100) \div 10)

RECURSIVE TrimLeft(_, _)
\* strings.TrimLeft
TrimLeft(s, cutset) ==
    IF s # <<>> /\ Head(s) \in cutset THEN TrimLeft(Tail(s), cutset) ELSE s

RECURSIVE TrimRight(_, _)
TrimRight(s, cutset) ==
    IF s # <<>> /\ s[Len(s)] \in cutset THEN TrimRight(SubSeq(s, 1, Len(s) - 1), cutset) ELSE s

\* strings.TrimSpace
TrimSpace(s) == TrimRight(TrimLeft(s, SpaceChars), SpaceChars)

\* strings.Replace(s, old, "", 1) for an old that occurs in s.
RemoveFirst(s, old) ==
    SubSeq(s, 1, Index(s, old) - 1) \o SubSeq(s, Index(s, old) + Len(old), Len(s))

\* The heading of an entry: the CVE in brackets and the title without it.
vulnHeader(v) ==
    LET title == IF v.CVE # <<>> /\ Index(v.Title, v.CVE) # 0
                 THEN TrimLeft(TrimSpace(RemoveFirst(v.Title, v.CVE)), {"[", "]", " "})
                 ELSE v.Title
    IN  IF v.CVE # <<>> THEN <<"[">> \o v.CVE \o <<"]", " ">> \o title ELSE title

headerLines(w, v) ==
    LET wrapped == wrapText(vulnHeader(v), w - headingMargin)
    IN  [i \in 1..Len(wrapped) |->
            IF i = 1
            THEN Line("heading", <<>>, TRUE, <<vLine, " ", bullet, " ", Bold>>,
                      wrapped[i], <<Reset, Reset, " ", vLine>>)
            ELSE Line("heading", <<>>, FALSE, <<vLine, " ", " ", " ", Bold>>,
                      wrapped[i], <<Reset, " ", vLine>>)]

labelSeverity == <<"S", "e", "v", "e", "r", "i", "t", "y", ":">>
labelDescription == <<"D", "e", "s", "c", "r", "i", "p", "t", "i", "o", "n", ":">>
labelReference == <<"R", "e", "f", "e", "r", "e", "n", "c", "e", ":">>
labelSuggestedFix == <<"S", "u", "g", "g", "e", "s", "t", "e", "d", " ", "F", "i", "x", ":">>

\* The lines of one vulnerability: heading and the four rows.
vulnEntry(w, v) ==
    headerLines(w, v)
        \o printRowContent(w, labelSeverity, FormatScore(v.CVSSScore), severityColor(v.CVSSScore))
        \o printRowContent(w, labelDescription, truncate("box", v.Description, descriptionBudget), <<>>)
        \o printRowContent(w, labelReference, v.Reference, <<>>)
        \o printRowContent(w, labelSuggestedFix, suggestedFix("box", v.Description, v.Reference), <<>>)

SeparatorFollowsAlways(idx, n) == TRUE

\* A separator follows every entry but the last.
SeparatorFollows(idx, n) == idx # n

depLines(w, dep) ==
    LET wrapped == wrapText(dep, w - headerMargin)
    IN  [i \in 1..Len(wrapped) |->
            Line("header", <<>>, i = 1, <<vLine, " ", Cyan>>, wrapped[i],
                 <<Reset>> \o Padding(<<Cyan>> \o wrapped[i] \o <<Reset>>, w - headerMargin)
                     \o <<" ", vLine>>)]

\* printVulnBox(dep, vulns): the lines of one block.
printVulnBox(dep, vulns) ==
    <<printHLine(boxWidth)>>
        \o depLines(boxWidth, dep)
        \o <<printInnerHLine(boxWidth)>>
        \o Flatten([idx \in 1..Len(vulns) |->
                        vulnEntry(boxWidth, vulns[idx])
                            \o (IF SeparatorFollows(idx, Len(vulns))
                                THEN <<printInnerHLine(boxWidth)>> ELSE <<>>)])
        \o <<printBLine(boxWidth)>>

\* ---- printReport with its blocks printed line by line ----
MaxEntries == 2
MaxBoxes == 2

RepeatText(piece, n) == Flatten(Repeat(piece, n))

overflowWord == <<"o", "v", "e", "r", "f", "l", "o", "w", " ">>
httpsScheme == <<"h", "t", "t", "p", "s", ":", "/", "/">>

\* A short entry whose description names a fixed version.
ShortVuln ==
    [Title |-> <<"[", "C", "V", "E", "-", "1", "]", " ", "o", "v", "e", "r", "f", "l", "o", "w">>, CVE |-> <<"C", "V", "E", "-", "1">>,
     Description |-> <<"F", "i", "x", "e", "d", " ", "i", "n", " ", "2", ".", "3", ".", "1">>, CVSSScore |-> 980,
     Reference |-> <<"h", "t", "t", "p", "s", ":", "/", "/", "x", ".", "i", "o", "/", "v", "/", "1">>]

\* An entry whose title and description wrap, whose description is over the
\* budget and whose reference is one word as long as the row's wrap width.
LongVuln ==
    [Title |-> RepeatText(overflowWord, 12), CVE |-> <<>>,
     Description |-> RepeatText(overflowWord, 30), CVSSScore |-> 400,
     Reference |-> httpsScheme \o Repeat("r", 75)]

\* An entry without a hint: the phrase stands at the end of the description.
PlainVuln ==
    [Title |-> <<"l", "e", "a", "k">>, CVE |-> <<"C", "V", "E", "-", "2">>,
     Description |-> <<"u", "s", "e", " ", "v", "e", "r", "s", "i", "o", "n", " ">>, CVSSScore |-> 0,
     Reference |-> <<"h", "t", "t", "p", "s", ":", "/", "/", "x", ".", "i", "o", "/", "v", "/", "2">>]

VulnSamples == {ShortVuln, LongVuln, PlainVuln}
depShort == <<"p", "k", "g", ":", "a", "@", "v", "1">>
depLong == <<"p", "k", "g", ":", "a", "@", "v", "1">> \o Repeat("x", 90)

ReportSamples ==
    {[Coordinates |-> depShort, Vulnerabilities |-> vs] : vs \in SeqsUpTo(VulnSamples, MaxEntries)}
        \cup {[Coordinates |-> depLong, Vulnerabilities |-> <<ShortVuln>>]}

ReportLists == SeqsUpTo(ReportSamples, MaxBoxes)

noKnownVulnerabilities == <<"N", "o", " ", "k", "n", "o", "w", "n", " ", "v", "u", "l", "n", "e", "r", "a", "b", "i", "l", "i", "t", "i", "e", "s", " ", "f", "o", "u", "n", "d", "!">>
summaryLabel == <<"S", "u", "m", "m", "a", "r", "y", ":">>
dependenciesAffected == <<" ", "d", "e", "p", "e", "n", "d", "e", "n", "c", "i", "e", "s", " ", "a", "f", "f", "e", "c", "t", "e", "d", ",", " ">>
vulnerabilitiesFound == <<" ", "v", "u", "l", "n", "e", "r", "a", "b", "i", "l", "i", "t", "i", "e", "s", " ", "f", "o", "u", "n", "d", ".">>

IdleReport ==
    /\ rpState = "idle"
    /\ rpResults = <<>>
    /\ rpIdx = 0
    /\ depCount = 0
    /\ vulnCount = 0
    /\ rpLines = <<>>

InitReport ==
    /\ rpState = "loop"
    /\ rpResults \in ReportLists
    /\ rpIdx = 1
    /\ depCount = 0
    /\ vulnCount = 0
    /\ rpLines = <<>>

\* A report with vulnerabilities: its block is printed and it is counted.
ReportBlock ==
    /\ rpState = "loop"
    /\ rpIdx <= Len(rpResults)
    /\ Len(rpResults[rpIdx].Vulnerabilities) > 0
    /\ depCount' = depCount + 1
    /\ rpLines' = rpLines \o printVulnBox(rpResults[rpIdx].Coordinates,
                                          rpResults[rpIdx].Vulnerabilities)
    /\ vulnCount' = vulnCount + Len(rpResults[rpIdx].Vulnerabilities)
    /\ rpIdx' = rpIdx + 1
    /\ UNCHANGED <<rpState, rpResults>>
    /\ UNCHANGED <<varsGoMod, varsPom, varsMain, varsSeverity, varsUpgrade, varsWrap, varsTruncate>>

\* A report without vulnerabilities: nothing is printed.
ReportSkip ==
    /\ rpState = "loop"
    /\ rpIdx <= Len(rpResults)
    /\ Len(rpResults[rpIdx].Vulnerabilities) = 0
    /\ rpIdx' = rpIdx + 1
    /\ UNCHANGED <<rpState, rpResults, depCount, vulnCount, rpLines>>
    /\ UNCHANGED <<varsGoMod, varsPom, varsMain, varsSeverity, varsUpgrade, varsWrap, varsTruncate>>

\* Nothing was found: the clean message.
ReportClean ==
    /\ rpState = "loop"
    /\ rpIdx > Len(rpResults)
    /\ vulnCount = 0
    /\ rpLines' = Append(rpLines, Line("clean", <<>>, TRUE, <<Cyan>>, noKnownVulnerabilities, <<Reset>>))
    /\ rpState' = "returned"
    /\ UNCHANGED <<rpResults, rpIdx, depCount, vulnCount>>
    /\ UNCHANGED <<varsGoMod, varsPom, varsMain, varsSeverity, varsUpgrade, varsWrap, varsTruncate>>

\* The summary line with the two counts.
ReportSummary ==
    /\ rpState = "loop"
    /\ rpIdx > Len(rpResults)
    /\ vulnCount # 0
    /\ rpLines' = Append(rpLines,
                         Line("summary", <<>>, TRUE, <<Bold>> \o summaryLabel \o <<Reset, " ">>,
                              Decimal(depCount) \o dependenciesAffected
                                  \o Decimal(vulnCount) \o vulnerabilitiesFound,
                              <<>>))
    /\ rpState' = "returned"
    /\ UNCHANGED <<rpResults, rpIdx, depCount, vulnCount>>
    /\ UNCHANGED <<varsGoMod, varsPom, varsMain, varsSeverity, varsUpgrade, varsWrap, varsTruncate>>

(***************************************************************************)
(* checkVulnerabilities: one POST and the decoding of its response body    *)
(* (encoding/json into []OSSIndexResponse).                                *)
(***************************************************************************)
MaxVulns == 2
MaxReports == 2

\* JSON values; NotJSON is a body that is no JSON text (empty, HTML, cut short).
NotJSON == [t |-> "invalid"]
JNull == [t |-> "null"]
JNumber(n) == [t |-> "number", n |-> n]
JString(str) == [t |-> "string", s |-> str]
JArray(items) == [t |-> "array", items |-> items]
JObject(fields) == [t |-> "object", fields |-> fields]

Has(obj, key) == key \in DOMAIN obj.fields

\* A field of string type: absent and null leave the zero value, a string sets
\* it, any other JSON value is an UnmarshalTypeError.
StringFieldOk(obj, key) == Has(obj, key) => obj.fields[key].t \in {"string", "null"}
StringField(obj, key) ==
    IF Has(obj, key) /\ obj.fields[key].t = "string" THEN obj.fields[key].s ELSE ""

\* A field of type float64.
NumberFieldOk(obj, key) == Has(obj, key) => obj.fields[key].t \in {"number", "null"}
NumberField(obj, key) ==
    IF Has(obj, key) /\ obj.fields[key].t = "number" THEN obj.fields[key].n ELSE 0

\* Decoding one array element into a Vulnerability.
VulnerabilityOk(v) ==
    \/ v.t = "null"
    \/ /\ v.t = "object"
       /\ \A k \in {"id", "title", "description", "cve", "reference"} : StringFieldOk(v, k)
       /\ NumberFieldOk(v, "cvssScore")

Vulnerability(v) ==
    IF v.t = "object"
    THEN [ID |-> StringField(v, "id"), Title |-> StringField(v, "title"),
          Description |-> StringField(v, "description"),
          CVSSScore |-> NumberField(v, "cvssScore"),
          CVE |-> StringField(v, "cve"), Reference |-> StringField(v, "reference")]
    ELSE [ID |-> "", Title |-> "", Description |-> "", CVSSScore |-> 0,
          CVE |-> "", Reference |-> ""]

VulnerabilitiesOk(r) ==
    Has(r, "vulnerabilities") =>
        \/ r.fields["vulnerabilities"].t = "null"
        \/ /\ r.fields["vulnerabilities"].t = "array"
           /\ \A i \in 1..Len(r.fields["vulnerabilities"].items) :
                  VulnerabilityOk(r.fields["vulnerabilities"].items[i])

\* Decoding one array element into an OSSIndexResponse.
OSSIndexResponseOk(r) ==
    \/ r.t = "null"
    \/ /\ r.t = "object"
       /\ StringFieldOk(r, "coordinates")
       /\ VulnerabilitiesOk(r)

OSSIndexResponse(r) ==
    IF r.t = "object"
    THEN [Coordinates |-> StringField(r, "coordinates"),
          Vulnerabilities |->
              IF Has(r, "vulnerabilities") /\ r.fields["vulnerabilities"].t = "array"
              THEN [i \in 1..Len(r.fields["vulnerabilities"].items) |->
                        Vulnerability(r.fields["vulnerabilities"].items[i])]
              ELSE <<>>]
    ELSE [Coordinates |-> "", Vulnerabilities |-> <<>>]

\* json.Unmarshal(body, &result) returns nil: the body is JSON, and is null or an
\* array whose elements decode.
UnmarshalOk(body) ==
    \/ body.t = "null"
    \/ /\ body.t = "array"
       /\ \A i \in 1..Len(body.items) : OSSIndexResponseOk(body.items[i])

\* The decoded []OSSIndexResponse of a body that decodes.
Unmarshal(body) ==
    IF body.t = "array"
    THEN [i \in 1..Len(body.items) |-> OSSIndexResponse(body.items[i])]
    ELSE <<>>

\* ---- response bodies the service may send ----
FullVulnerability ==
    JObject([id |-> JString("sonatype-1"), title |-> JString("[CVE-1] overflow"),
             description |-> JString("fixed in 2.3.1"), cvssScore |-> JNumber(750),
             cve |-> JString("CVE-1"), reference |-> JString("https://ossindex/1")])

VulnerabilityLists ==
    {[i \in 1..k |-> FullVulnerability] : k \in 0..MaxVulns}
        \cup {<<JObject([id |-> JString("sonatype-2")])>>,
              <<JObject([id |-> JString("sonatype-3"), cvssScore |-> JString("high")])>>}

ResponseItems ==
    {JObject([coordinates |-> JString("pkg:a"), vulnerabilities |-> JArray(vs)]) :
        vs \in VulnerabilityLists}
    \cup {JObject([coordinates |-> JString("pkg:b")]),
          JObject([coordinates |-> JString("pkg:b"), vulnerabilities |-> JNull]),
          JObject([coordinates |-> JNumber(1), vulnerabilities |-> JArray(<<>>)]),
          JObject([vulnerabilities |-> JArray(<<FullVulnerability>>)]),
          JObject([coordinates |-> JString("pkg:b"), vulnerabilities |-> JString("none")]),
          JNull, JNumber(1)}

ResponseBodies ==
    {JArray(items) : items \in SeqsUpTo(ResponseItems, MaxReports)}
        \cup {NotJSON, JNull, JString("error"),
              JObject([code |-> JNumber(429), message |-> JString("too many requests")])}

(***************************************************************************)
(* printReport (and the report loop of the table generation's main): what  *)
(* is printed, as a sequence of events.                                    *)
(***************************************************************************)
Event(kind, dep, n, m) == [kind |-> kind, dep |-> dep, n |-> n, m |-> m]

AffectedAll(rs) == rs

\* The reports that get a block: those with at least one vulnerability.
Affected(rs) == SelectSeq(rs, LAMBDA r : Len(r.Vulnerabilities) > 0)

RECURSIVE SumVulns(_)
SumVulns(rs) ==
    IF rs = <<>> THEN 0 ELSE Len(Head(rs).Vulnerabilities) + SumVulns(Tail(rs))

printReport(v, rs) ==
    LET hit == Affected(rs)
        blocks == [i \in 1..Len(hit) |->
                      Event("block", hit[i].Coordinates, Len(hit[i].Vulnerabilities), 0)]
        vulnTotal == SumVulns(hit)
    IN  blocks \o
        (IF vulnTotal = 0 THEN <<Event("clean", "", 0, 0)>>
         ELSE IF v = "plain" THEN <<>>
         ELSE <<Event("summary", "", Len(hit), vulnTotal)>>)

(***************************************************************************)
(* main: the driver.                                                       *)
(***************************************************************************)
Variants == {"table", "box96", "box100", "plain"}

goWord == <<"g", "o">>
javaWord == <<"j", "a", "v", "a">>
projectPath == <<"/", "p">>

\* os.Args[1:], the arguments after the program name.
ArgVectors ==
    {<<>>, <<goWord>>, <<goWord, projectPath>>, <<javaWord, projectPath>>,
     <<<<"G", "O">>, projectPath>>, <<<<"r", "u", "s", "t">>, projectPath>>,
     <<goWord, projectPath, <<"x">>>>}

\* The state of the manifest file under the project root.
File(state, lines, doc) == [state |-> state, lines |-> lines, doc |-> doc]
NoFile == File("unseen", <<>>, MalformedDocument)

OneDependency ==
    Element("dependency", "",
        <<Element("groupId", "org.x", <<>>), Element("artifactId", "lib", <<>>),
          Element("version", "1.0", <<>>)>>)

GoModFiles ==
    {File("missing", <<>>, MalformedDocument), File("unreadable", <<>>, MalformedDocument)}
        \cup {File("present", ls, MalformedDocument) :
                ls \in {<<>>,
                        <<requireOpen, EntryLine(<<"a", "/", "b">>, <<"1", ".", "2">>), closeParen>>,
                        <<SingleRequire(<<"a", "/", "b">>, <<"1", ".", "2">>)>>}}

PomFiles ==
    {File("missing", <<>>, MalformedDocument), File("present", <<>>, MalformedDocument)}
        \cup {File("present", <<>>, PomDocument("project", FALSE, ds)) :
                ds \in {<<>>, <<OneDependency>>}}

ManifestFiles(l) == IF l = goWord THEN GoModFiles ELSE PomFiles

NoError == "nil"

\* len(os.Args) != 3 (table generation), len(os.Args) < 3 (the others).
BadArgCount(v, args) ==
    IF v = "table" THEN Len(args) + 1 # 3 ELSE Len(args) + 1 < 3

\* lang := os.Args[1] (table generation), strings.ToLower(os.Args[1]) (the others).
Selector(v, args) == IF v = "table" THEN args[1] ELSE ToLower(args[1])

\* The generations that os.Stat the manifest before parsing it.
StatsManifest(v) == v # "table"

\* err != nil after the parse.
ParseFailed(e) == e # NoError

NoDependenciesNever(ps) == FALSE

\* len(pkgs) == 0
NoDependencies(ps) == Len(ps) = 0

LookupFailedNever(e) == FALSE

\* err != nil after checkVulnerabilities.
LookupFailed(e) == e # NoError

\* parseGoMod / parsePomXML on the manifest file: [err, pkgs].
ParseManifest(l, file) ==
    IF l = goWord
    THEN IF file.state = "present"
         THEN [err |-> NoError, pkgs |-> parseGoMod(file.lines)]
         ELSE [err |-> "open", pkgs |-> <<>>]
    ELSE IF file.state = "present" /\ file.doc.wellFormed
         THEN [err |-> NoError, pkgs |-> parsePomXML(file.doc)]
         ELSE [err |-> "read", pkgs |-> <<>>]

IdleMain ==
    /\ variant = "box100"
    /\ osArgs = <<>>
    /\ pc = "idle"
    /\ lang = <<>>
    /\ manifest = NoFile
    /\ coords = <<>>
    /\ err = NoError
    /\ posts = 0
    /\ respBody = NotJSON
    /\ results = <<>>
    /\ out = <<>>
    /\ exitCode = -1

InitMain ==
    /\ variant \in Variants
    /\ osArgs \in ArgVectors
    /\ pc = "args"
    /\ lang = <<>>
    /\ manifest = NoFile
    /\ coords = <<>>
    /\ err = NoError
    /\ posts = 0
    /\ respBody = NotJSON
    /\ results = <<>>
    /\ out = <<>>
    /\ exitCode = -1

Exit(code, event) ==
    /\ out' = Append(out, Event(event, "", 0, 0))
    /\ exitCode' = code
    /\ pc' = "exit"

\* The argument count is refused: usage text, os.Exit(1).
Usage ==
    /\ pc = "args"
    /\ BadArgCount(variant, osArgs)
    /\ Exit(1, "usage")
    /\ UNCHANGED <<variant, osArgs, lang, manifest, coords, err, posts, respBody, results>>
    /\ UNCHANGED <<varsGoMod, varsPom, varsSeverity, varsUpgrade, varsWrap, varsTruncate, varsReport>>

\* The argument count is accepted: lang and path are read from os.Args.
ReadArgs ==
    /\ pc = "args"
    /\ ~BadArgCount(variant, osArgs)
    /\ lang' = Selector(variant, osArgs)
    /\ pc' = "switch"
    /\ UNCHANGED <<variant, osArgs, manifest, coords, err, posts, respBody, results, out, exitCode>>
    /\ UNCHANGED <<varsGoMod, varsPom, varsSeverity, varsUpgrade, varsWrap, varsTruncate, varsReport>>

\* switch lang, default: "Supported languages: go, java", os.Exit(1).
Unsupported ==
    /\ pc = "switch"
    /\ lang \notin {goWord, javaWord}
    /\ Exit(1, "unsupported")
    /\ UNCHANGED <<variant, osArgs, lang, manifest, coords, err, posts, respBody, results>>
    /\ UNCHANGED <<varsGoMod, varsPom, varsSeverity, varsUpgrade, varsWrap, varsTruncate, varsReport>>

\* case "go" / "java" with os.Stat: the manifest does not exist, os.Exit(1).
ManifestNotFound ==
    /\ pc = "switch"
    /\ lang \in {goWord, javaWord}
    /\ StatsManifest(variant)
    /\ \E file \in ManifestFiles(lang) :
        /\ file.state = "missing"
        /\ manifest' = file
    /\ Exit(1, "not-found")
    /\ UNCHANGED <<variant, osArgs, lang, coords, err, posts, respBody, results>>
    /\ UNCHANGED <<varsGoMod, varsPom, varsSeverity, varsUpgrade, varsWrap, varsTruncate, varsReport>>

\* case "go" / "java": the manifest is parsed (after os.Stat found it, in the
\* generations that stat).
Parse ==
    /\ pc = "switch"
    /\ lang \in {goWord, javaWord}
    /\ \E file \in ManifestFiles(lang) :
        /\ StatsManifest(variant) => file.state # "missing"
        /\ manifest' = file
        /\ err' = ParseManifest(lang, file).err
        /\ coords' = ParseManifest(lang, file).pkgs
    /\ out' = IF StatsManifest(variant) THEN Append(out, Event("parsing", "", 0, 0)) ELSE out
    /\ pc' = "parsed"
    /\ UNCHANGED <<variant, osArgs, lang, posts, respBody, results, exitCode>>
    /\ UNCHANGED <<varsGoMod, varsPom, varsSeverity, varsUpgrade, varsWrap, varsTruncate, varsReport>>

\* err != nil: the parse error is printed, os.Exit(1).
ParseError ==
    /\ pc = "parsed"
    /\ ParseFailed(err)
    /\ Exit(1, "parse-error")
    /\ UNCHANGED <<variant, osArgs, lang, manifest, coords, err, posts, respBody, results>>
    /\ UNCHANGED <<varsGoMod, varsPom, varsSeverity, varsUpgrade, varsWrap, varsTruncate, varsReport>>

\* len(pkgs) == 0: "No dependencies found.", os.Exit(0).
NoDependenciesFound ==
    /\ pc = "parsed"
    /\ ~ParseFailed(err)
    /\ NoDependencies(coords)
    /\ Exit(0, "no-dependencies")
    /\ UNCHANGED <<variant, osArgs, lang, manifest, coords, err, posts, respBody, results>>
    /\ UNCHANGED <<varsGoMod, varsPom, varsSeverity, varsUpgrade, varsWrap, varsTruncate, varsReport>>

\* checkVulnerabilities(pkgs): the POST fails.
QueryTransportError ==
    /\ pc = "parsed"
    /\ ~ParseFailed(err)
    /\ ~NoDependencies(coords)
    /\ out' = Append(out, Event("found", "", Len(coords), 0))
    /\ posts' = posts + 1
    /\ err' = "transport"
    /\ pc' = "queried"
    /\ UNCHANGED <<variant, osArgs, lang, manifest, coords, respBody, results, exitCode>>
    /\ UNCHANGED <<varsGoMod, varsPom, varsSeverity, varsUpgrade, varsWrap, varsTruncate, varsReport>>

\* checkVulnerabilities(pkgs): the POST is answered and the body decoded.
Query ==
    /\ pc = "parsed"
    /\ ~ParseFailed(err)
    /\ ~NoDependencies(coords)
    /\ out' = Append(out, Event("found", "", Len(coords), 0))
    /\ posts' = posts + 1
    /\ \E body \in ResponseBodies :
        /\ respBody' = body
        /\ err' = IF UnmarshalOk(body) THEN NoError ELSE "decode"
        /\ results' = IF UnmarshalOk(body) THEN Unmarshal(body) ELSE <<>>
    /\ pc' = "queried"
    /\ UNCHANGED <<variant, osArgs, lang, manifest, coords, exitCode>>
    /\ UNCHANGED <<varsGoMod, varsPom, varsSeverity, varsUpgrade, varsWrap, varsTruncate, varsReport>>

\* err != nil: the lookup error is printed, os.Exit(1).
QueryError ==
    /\ pc = "queried"
    /\ LookupFailed(err)
    /\ Exit(1, "query-error")
    /\ UNCHANGED <<variant, osArgs, lang, manifest, coords, err, posts, respBody, results>>
    /\ UNCHANGED <<varsGoMod, varsPom, varsSeverity, varsUpgrade, varsWrap, varsTruncate, varsReport>>

\* The report is printed and main returns (exit status 0).
Report ==
    /\ pc = "queried"
    /\ ~LookupFailed(err)
    /\ out' = out \o printReport(variant, results)
    /\ exitCode' = 0
    /\ pc' = "exit"
    /\ UNCHANGED <<variant, osArgs, lang, manifest, coords, err, posts, respBody, results>>
    /\ UNCHANGED <<varsGoMod, varsPom, varsSeverity, varsUpgrade, varsWrap, varsTruncate, varsReport>>

(***************************************************************************)
(* Specifications.                                                         *)
(***************************************************************************)
Init == IdleGoMod /\ IdlePom /\ InitMain /\ IdleSeverity /\ IdleUpgrade /\ IdleWrap /\ IdleTruncate /\ IdleReport

Next ==
    \/ Usage
    \/ ReadArgs
    \/ Unsupported
    \/ ManifestNotFound
    \/ Parse
    \/ ParseError
    \/ NoDependenciesFound
    \/ QueryTransportError
    \/ Query
    \/ QueryError
    \/ Report

\* One run of the driver.
Spec == Init /\ [][Next]_vars

InitGoModSpec == InitGoMod /\ IdlePom /\ IdleMain /\ IdleSeverity /\ IdleUpgrade /\ IdleWrap /\ IdleTruncate /\ IdleReport

NextGoMod ==
    \/ GoModOpen
    \/ GoModOpenFail
    \/ GoModScan
    \/ GoModReturn

\* One call of parseGoMod.
SpecGoMod == InitGoModSpec /\ [][NextGoMod]_vars

InitPomSpec == IdleGoMod /\ InitPom /\ IdleMain /\ IdleSeverity /\ IdleUpgrade /\ IdleWrap /\ IdleTruncate /\ IdleReport

NextPom ==
    \/ PomRead
    \/ PomReadFail
    \/ PomVisit
    \/ PomReturn

\* One call of parsePomXML.
SpecPom == InitPomSpec /\ [][NextPom]_vars

InitSeveritySpec == IdleGoMod /\ IdlePom /\ IdleMain /\ InitSeverity /\ IdleUpgrade /\ IdleWrap /\ IdleTruncate /\ IdleReport

NextSeverity == Classify

\* One call of severityColor.
SpecSeverity == InitSeveritySpec /\ [][NextSeverity]_vars

InitUpgradeSpec == IdleGoMod /\ IdlePom /\ IdleMain /\ IdleSeverity /\ InitUpgrade /\ IdleWrap /\ IdleTruncate /\ IdleReport

NextUpgrade == Extract

\* One call of extractUpgradeSuggestion.
SpecUpgrade == InitUpgradeSpec /\ [][NextUpgrade]_vars

InitWrapSpec == IdleGoMod /\ IdlePom /\ IdleMain /\ IdleSeverity /\ IdleUpgrade /\ InitWrap /\ IdleTruncate /\ IdleReport

NextWrap ==
    \/ WrapNoWords
    \/ WrapFirstWord
    \/ WrapNextWord
    \/ WrapReturn
    \/ WrapCallAgain

\* Calls of wrapText with one pair of arguments.
SpecWrap == InitWrapSpec /\ [][NextWrap]_vars

InitTruncateSpec ==
    IdleGoMod /\ IdlePom /\ IdleMain /\ IdleSeverity /\ IdleUpgrade /\ IdleWrap /\ InitTruncate /\ IdleReport

NextTruncate ==
    \/ TruncateKeep
    \/ TruncateCut

\* One call of truncate.
SpecTruncate == InitTruncateSpec /\ [][NextTruncate]_vars

InitReportSpec ==
    /\ IdleGoMod /\ IdlePom /\ IdleMain /\ IdleSeverity /\ IdleUpgrade /\ IdleWrap /\ IdleTruncate
    /\ InitReport

NextReport ==
    \/ ReportBlock
    \/ ReportSkip
    \/ ReportClean
    \/ ReportSummary

\* One call of printReport, its blocks printed line by line.
SpecReport == InitReportSpec /\ [][NextReport]_vars

(***************************************************************************)
(* Properties of parseGoMod (SpecGoMod).                                   *)
(***************************************************************************)
Scanning == gmState \in {"scan", "returned"}

\* The in-block flag when line i is read: some "require (" line before it has
\* no line starting with ")" between it and line i.
FlagAt(i) ==
    \E j \in 1..(i - 1) :
        /\ HasPrefix(scanned[j], requireOpen)
        /\ \A k \in (j + 1)..(i - 1) : ~HasPrefix(scanned[k], closeParen)

IsMarker(line) == HasPrefix(line, requireOpen) \/ HasPrefix(line, closeParen)

\* The coordinate the entry pattern's groups give for a matching line.
EntryCoordinate(line) ==
    pkgGolang \o depPattern(line)[2] \o <<"@", "v">> \o depPattern(line)[3]

\* C1: a single-line requirement directive outside any block,
\* "require <module-path> v<version>", yields exactly the coordinate
\* pkg:golang/<module-path>@v<version>: a file made only of such directives
\* yields one coordinate per directive, in order.
C1_SingleRequireYieldsCoordinate ==
    (Scanning /\ \A i \in 1..Len(scanned) : scanned[i] \in SingleRequireLines)
        => /\ Len(pkgs) = Len(scanned)
           /\ \A i \in 1..Len(scanned) :
                \E m \in ModPaths :
                    /\ scanned[i] = SingleRequire(m, <<"1", ".", "2">>)
                    /\ pkgs[i] = GoCoordinate(m, <<"1", ".", "2">>)

\* Every requirement sits inside a block: no line read with the flag clear
\* starts with "require", the block openers apart.
AllRequirementsInBlocks ==
    \A i \in 1..Len(scanned) :
        (~FlagAt(i) /\ ~HasPrefix(scanned[i], requireOpen))
            => ~HasPrefix(scanned[i], requireWord)

\* The lines that must yield a coordinate: read with the flag set and
\* matching the entry pattern.
BlockEntryIndexes ==
    SelectSeq([i \in 1..Len(scanned) |-> i],
              LAMBDA i : FlagAt(i) /\ depPattern(scanned[i]) # <<>>)

\* C2: when all requirements sit inside "require (" ... ")" blocks, the
\* coordinates are, in manifest order and with duplicates kept, exactly one
\* pkg:golang/<path>@v<version> per line read with the in-block flag set that
\* matches the entry pattern; in-block lines that do not match and lines
\* outside blocks yield nothing, and the scan raises no error.
C2_BlockEntriesInOrder ==
    (Scanning /\ AllRequirementsInBlocks)
        => /\ pkgs = [k \in 1..Len(BlockEntryIndexes) |->
                         EntryCoordinate(scanned[BlockEntryIndexes[k]])]
           /\ \A i \in 1..Len(scanned) :
                  IsMarker(scanned[i]) => depPattern(scanned[i]) = <<>>

\* A finished scan of a block holding the same entry twice and a malformed line.
C2_Witness ==
    /\ gmState = "returned"
    /\ AllRequirementsInBlocks
    /\ Len(pkgs) = 2
    /\ pkgs[1] = pkgs[2]
    /\ \E i \in 1..Len(scanned) :
        FlagAt(i) /\ ~IsMarker(scanned[i]) /\ depPattern(scanned[i]) = <<>>

(***************************************************************************)
(* Properties of parsePomXML (SpecPom).                                    *)
(***************************************************************************)
\* The dependency elements under project/dependencies, in document order.
UnderDependenciesPath(doc) ==
    IF doc.root.tag = "project"
    THEN LET lists == SelectSeq(doc.root.children, LAMBDA e : e.tag = "dependencies")
         IN  Flatten([i \in 1..Len(lists) |->
                         SelectSeq(lists[i].children, LAMBDA e : e.tag = "dependency")])
    ELSE <<>>

HasChild(e, tag) == \E i \in 1..Len(e.children) : e.children[i].tag = tag

ChildText(e, tag) ==
    e.children[CHOOSE i \in 1..Len(e.children) : e.children[i].tag = tag].text

IsComplete(e) == HasChild(e, "groupId") /\ HasChild(e, "artifactId") /\ HasChild(e, "version")

\* The coordinates of the complete elements among the first n under the path.
ExpectedMaven(doc, n) ==
    LET kept == SelectSeq(SubSeq(UnderDependenciesPath(doc), 1, n), IsComplete)
    IN  [k \in 1..Len(kept) |->
            <<"pkg:maven/", ChildText(kept[k], "groupId"), "/",
              ChildText(kept[k], "artifactId"), "@", ChildText(kept[k], "version")>>]

\* C3: for a well-formed pom.xml the coordinates are, in document order, one
\* pkg:maven/<group>/<artifact>@<version> per dependency element under
\* project/dependencies that has groupId, artifactId and version; an element
\* missing one of them is left out, without an error and without changing the
\* others.
C3_CompleteDependenciesOnly ==
    /\ pomState = "walk" => pomPkgs = ExpectedMaven(pomDoc, depIdx - 1)
    /\ pomState = "returned" =>
        pomPkgs = ExpectedMaven(pomDoc, Len(UnderDependenciesPath(pomDoc)))
    /\ pomState = "error" => ~pomDoc.wellFormed

\* A returned parse of a document with a managed dependency, one complete and
\* one incomplete dependency.
C3_Witness ==
    /\ pomState = "returned"
    /\ Len(UnderDependenciesPath(pomDoc)) = 2
    /\ IsComplete(UnderDependenciesPath(pomDoc)[2])
    /\ ~IsComplete(UnderDependenciesPath(pomDoc)[1])
    /\ HasChild(pomDoc.root, "dependencyManagement")
    /\ Len(pomPkgs) = 1

(***************************************************************************)
(* Properties of the driver (Spec).                                        *)
(***************************************************************************)
Printed(kind) == \E i \in 1..Len(out) : out[i].kind = kind

ReportKinds == {"block", "summary", "clean"}

ReportPrinted == \E i \in 1..Len(out) : out[i].kind \in ReportKinds

\* The manifest was looked at and cannot be parsed: missing, unreadable, or
\* (pom.xml) not well formed.
ManifestUnusable ==
    \/ manifest.state \in {"missing", "unreadable"}
    \/ manifest.state = "present" /\ lang = javaWord /\ ~manifest.doc.wellFormed

ManifestParsed == manifest.state # "unseen" /\ ~ManifestUnusable

\* C4: the lookup request is issued at most once, and only after the manifest
\* parse succeeded with at least one coordinate; a run whose manifest is
\* missing, whose parse fails or whose parse yields no coordinate ends
\* without a network call, the last one printing "No dependencies found.".
C4_LookupOnlyAfterSuccessfulParse ==
    /\ posts <= 1
    /\ posts = 1 => (ManifestParsed /\ Len(coords) >= 1)
    /\ (pc = "exit" /\ (manifest.state = "unseen" \/ ManifestUnusable)) => posts = 0
    /\ (pc = "exit" /\ ManifestParsed /\ Len(coords) = 0)
            => (posts = 0 /\ out[Len(out)].kind = "no-dependencies")

\* A finished run over a manifest that parses to no coordinate.
C4_Witness ==
    /\ pc = "exit"
    /\ ManifestParsed
    /\ Len(coords) = 0
    /\ posts = 0
    /\ Printed("no-dependencies")

\* The command line the spec accepts: exactly two positional arguments, the
\* first one of the literals go and java.
ArgsValid == Len(osArgs) = 2 /\ osArgs[1] \in {goWord, javaWord}

LookupSucceeded == posts = 1 /\ err = NoError

\* C5: the exit code is 0 exactly when the arguments are valid, the manifest
\* parse succeeds, and either no coordinate was extracted or the lookup
\* succeeds; it is non-zero on every usage error, missing manifest, parse
\* error, transport error and decode error.
C5_ExitCodeZeroIffSuccess ==
    pc = "exit" =>
        /\ exitCode \in {0, 1}
        /\ exitCode = 0 <=>
            (ArgsValid /\ ManifestParsed /\ (Len(coords) = 0 \/ LookupSucceeded))

\* C6: an invocation without exactly two positional arguments, or with a
\* selector that is not one of the two literals, prints a usage message and
\* ends non-zero without reading any manifest.
C6_UsageErrorStopsBeforeManifest ==
    ~ArgsValid =>
        /\ manifest.state = "unseen"
        /\ pc \notin {"parsed", "queried"}
        /\ pc = "exit" =>
            (exitCode # 0 /\ Len(out) = 1 /\ out[1].kind \in {"usage", "unsupported"})

\* C7: when the lookup fails (transport or decode), no part of the report is
\* printed; a report is printed only after checkVulnerabilities returned
\* without error; and there is never a second request.
C7_NoReportAfterFailedLookup ==
    /\ posts <= 1
    /\ err \in {"transport", "decode"} => ~ReportPrinted
    /\ ReportPrinted => (posts = 1 /\ err = NoError /\ UnmarshalOk(respBody))
    /\ (pc = "exit" /\ err \in {"transport", "decode"})
            => (exitCode = 1 /\ out[Len(out)].kind = "query-error")

\* A finished run whose response body did not decode.
C7_Witness ==
    /\ pc = "exit"
    /\ posts = 1
    /\ err = "decode"
    /\ exitCode = 1
    /\ ~ReportPrinted

\* The schema of a vulnerability object: id, title, description and reference
\* strings, a numeric score, an optional CVE string.
VulnerabilityMatches(v) ==
    /\ v.t = "object"
    /\ \A k \in {"id", "title", "description", "reference"} :
            Has(v, k) /\ v.fields[k].t = "string"
    /\ Has(v, "cvssScore") /\ v.fields["cvssScore"].t = "number"
    /\ Has(v, "cve") => v.fields["cve"].t = "string"

\* The expected schema: an array of objects, each with a coordinate string and
\* an array of vulnerability objects.
SchemaMatches(body) ==
    /\ body.t = "array"
    /\ \A i \in 1..Len(body.items) :
        LET r == body.items[i]
        IN  /\ r.t = "object"
            /\ Has(r, "coordinates") /\ r.fields["coordinates"].t = "string"
            /\ Has(r, "vulnerabilities") /\ r.fields["vulnerabilities"].t = "array"
            /\ \A j \in 1..Len(r.fields["vulnerabilities"].items) :
                    VulnerabilityMatches(r.fields["vulnerabilities"].items[j])

\* C8: checkVulnerabilities returns an error for every response body that is
\* not valid JSON or does not match the expected schema, and a report list
\* only for bodies that match it.
C8_DecodeErrorIffSchemaMismatch ==
    (posts = 1 /\ err # "transport") => (err = NoError <=> SchemaMatches(respBody))

(***************************************************************************)
(* Properties of severityColor (SpecSeverity).                             *)
(***************************************************************************)
Classified == sevColor # <<>>

\* C9: for every score in 0.0..10.0 the emphasis is critical (red, bold) iff
\* score >= 9.0, high (red) iff 7.0 <= score < 9.0, medium (yellow) iff
\* 4.0 <= score < 7.0, and the reset iff score < 4.0; 9.0 is critical, 8.99 and
\* 7.0 high, 6.99 and 4.0 medium, 3.99 low.
C9_SeverityTiers ==
    Classified =>
        /\ sevColor = <<Red, Bold>> <=> score >= 900
        /\ sevColor = <<Red>> <=> (700 <= score /\ score < 900)
        /\ sevColor = <<Yellow>> <=> (400 <= score /\ score < 700)
        /\ sevColor = <<Reset>> <=> score < 400
        /\ score = 900 => sevColor = <<Red, Bold>>
        /\ score \in {899, 700} => sevColor = <<Red>>
        /\ score \in {699, 400} => sevColor = <<Yellow>>
        /\ score = 399 => sevColor = <<Reset>>

\* The score 9.0 classified as critical.
C9_Witness == score = 900 /\ sevColor = <<Red, Bold>>

(***************************************************************************)
(* Properties of extractUpgradeSuggestion (SpecUpgrade).                   *)
(***************************************************************************)
\* The phrase order the spec states, and the table generation's own list.
StatedOrder(v) ==
    IF v = "table"
    THEN <<upgradeToVersion, fixedIn, updateToVersion, useVersion>>
    ELSE <<upgradeToVersion, upgradeTo, fixedIn, updateToVersion, useVersion>>

StatedPrefix(v) ==
    IF v = "table"
    THEN <<"U", "p", "g", "r", "a", "d", "e", " ", "t", "o", " ">>
    ELSE <<"U", "p", "g", "r", "a", "d", "e", " ", "t", "o", " ", "v", "e", "r", "s", "i", "o", "n", " ">>

Lowered == ToLower(desc)

Occurs(p) ==
    \E i \in 1..(Len(Lowered) - Len(p) + 1) : SubSeq(Lowered, i, i + Len(p) - 1) = p

FirstAt(p) ==
    CHOOSE i \in 1..(Len(Lowered) - Len(p) + 1) :
        /\ SubSeq(Lowered, i, i + Len(p) - 1) = p
        /\ \A j \in 1..(i - 1) : SubSeq(Lowered, j, j + Len(p) - 1) # p

\* The whitespace-delimited words after the first occurrence of p.
WordsAfter(p) == Fields(SubSeq(Lowered, FirstAt(p) + Len(p), Len(Lowered)))

\* The positions in the stated order of the phrases that occur.
Occurring(v) == {k \in 1..Len(StatedOrder(v)) : Occurs(StatedOrder(v)[k])}

\* ... and of those that occur with a word after them.
Deciding(v) == {k \in Occurring(v) : WordsAfter(StatedOrder(v)[k]) # <<>>}

Least(S) == CHOOSE k \in S : \A j \in S : k <= j

HintOf(v, k) == StatedPrefix(v) \o WordsAfter(StatedOrder(v)[k])[1]

C11_FallbackIffNoPhraseOccurs ==
    (upState = "returned" /\ upVariant = "box")
        => /\ (fixValue = fallbackFix(upVariant, sampleReference)) <=> (Occurring(upVariant) = {})
           /\ Occurring(upVariant) # {} =>
                  \E k \in Deciding(upVariant) : fixValue = HintOf(upVariant, k)

\* C11 as amended: the line is the fallback if and only if no phrase occurs
\* with a whitespace-delimited token after it; otherwise it is the prefix
\* followed by the token after the first such phrase of the order.
C11_FallbackIffNoPhraseWithToken ==
    upState = "returned" =>
        /\ (fixValue = fallbackFix(upVariant, sampleReference)) <=> (Deciding(upVariant) = {})
        /\ Deciding(upVariant) # {} =>
               fixValue = HintOf(upVariant, Least(Deciding(upVariant)))

\* "Fixed in 2.3.1" followed by more text gave "Upgrade to version 2.3.1".
C11_Witness ==
    /\ upState = "returned"
    /\ upVariant = "box"
    /\ Deciding(upVariant) = {3}
    /\ Len(WordsAfter(fixedIn)) > 1
    /\ desc # Lowered
    /\ fixValue = StatedPrefix(upVariant) \o <<"2", ".", "3", ".", "1">>

(***************************************************************************)
(* Properties of wrapText (SpecWrap).                                      *)
(***************************************************************************)
Wrapped == wState = "returned"

\* The words of line k of the result.
LineWords(k) == Fields(wLines[k])

RECURSIVE JoinWords(_)
\* The words separated by single spaces.
JoinWords(ws) ==
    IF ws = <<>> THEN <<>>
    ELSE IF Len(ws) = 1 THEN ws[1]
    ELSE ws[1] \o <<" ">> \o JoinWords(Tail(ws))

\* C12: the lines hold every whitespace-separated word of s exactly once, in
\* input order and unsplit; a word joins the current line exactly when line
\* length + 1 + word length, counted in characters, does not exceed width, so
\* a line of two or more words is at most width characters, every line break
\* was forced, a word longer than width stands alone, and input without words
\* gives exactly one empty line.
C12_GreedyWrap ==
    Wrapped =>
        IF Fields(wText) = <<>>
        THEN wLines = << <<>> >>
        ELSE /\ Flatten([k \in 1..Len(wLines) |-> LineWords(k)]) = Fields(wText)
             /\ \A k \in 1..Len(wLines) :
                    /\ LineWords(k) # <<>>
                    /\ wLines[k] = JoinWords(LineWords(k))
                    /\ Len(LineWords(k)) >= 2 => Len(wLines[k]) <= wWidth
                    /\ \A j \in 1..Len(LineWords(k)) :
                           Len(LineWords(k)[j]) > wWidth => Len(LineWords(k)) = 1
             /\ \A k \in 1..(Len(wLines) - 1) :
                    Len(wLines[k]) + 1 + Len(LineWords(k + 1)[1]) > wWidth

\* Two lines, the first of two words and exactly width characters long,
\* one of them a two-byte character.
C12_Witness ==
    /\ Wrapped
    /\ Len(wLines) >= 2
    /\ Len(LineWords(1)) = 2
    /\ Len(wLines[1]) = wWidth
    /\ ByteCount(wLines[1]) > wWidth

RepeatedCallsAgree == \A i \in 1..Len(wPrev) : wPrev[i] = wLines

\* C13 as stated: for every s of fewer than width characters the result is the
\* one-element sequence holding s itself, and a repeated call with the same
\* arguments returns the same result.
C13_ShortTextReturnedAsIs ==
    Wrapped =>
        /\ Len(wText) < wWidth => wLines = <<wText>>
        /\ RepeatedCallsAgree

\* s has no leading or trailing whitespace and its words are separated by
\* single spaces.
SingleSpaced(s) ==
    \A i \in 1..Len(s) :
        s[i] \in SpaceChars =>
            /\ s[i] = " "
            /\ i # 1 /\ i # Len(s)
            /\ s[i + 1] \notin SpaceChars

\* C13 as amended: for every s of fewer than width characters the result is
\* the one-element sequence holding the words of s separated by single
\* spaces, which is s itself exactly when s is single-spaced; a repeated call
\* returns the same result.
C13_ShortTextReturnedNormalised ==
    Wrapped =>
        /\ Len(wText) < wWidth =>
               /\ wLines = <<JoinWords(Fields(wText))>>
               /\ (wLines = <<wText>>) <=> SingleSpaced(wText)
        /\ RepeatedCallsAgree

\* A second call returned for a short text of two words separated by a tab.
C13_Witness ==
    /\ Wrapped
    /\ wPrev # <<>>
    /\ Len(wText) < wWidth
    /\ Len(Fields(wText)) = 2
    /\ ~SingleSpaced(wText)
    /\ wLines = <<JoinWords(Fields(wText))>>

(***************************************************************************)
(* Properties of the report summary (Spec).                                *)
(***************************************************************************)
\* The run reached the report: the lookup succeeded and main returned.
ReportDone == pc = "exit" /\ exitCode = 0 /\ LookupSucceeded

WithVulnerabilities == {i \in 1..Len(results) : Len(results[i].Vulnerabilities) >= 1}

RECURSIVE TotalUpTo(_)
\* The sum of the vulnerability-list lengths of the first k reports.
TotalUpTo(k) == IF k = 0 THEN 0 ELSE TotalUpTo(k - 1) + Len(results[k].Vulnerabilities)

Closing == {i \in 1..Len(out) : out[i].kind \in {"summary", "clean"}}

\* C14: in the generations that print a summary (table, box96, box100) exactly
\* one of the clean message and the summary line is printed; the clean message
\* exactly when the total number of vulnerabilities is zero (an empty report
\* list included); the summary's dependency count is the number of reports
\* with at least one vulnerability and its vulnerability count is the sum of
\* the vulnerability-list lengths of all reports.
C14_SummaryCounts ==
    (ReportDone /\ variant # "plain") =>
        /\ Cardinality(Closing) = 1
        /\ Printed("clean") <=> (TotalUpTo(Len(results)) = 0)
        /\ \A i \in Closing :
               out[i].kind = "summary" =>
                   /\ out[i].n = Cardinality(WithVulnerabilities)
                   /\ out[i].m = TotalUpTo(Len(results))
                   /\ i = Len(out)

\* Two reports, one without vulnerabilities and one with two: the summary
\* reads 1 dependencies affected, 2 vulnerabilities found.
C14_Witness ==
    /\ ReportDone
    /\ variant = "box100"
    /\ Len(results) = 2
    /\ Len(results[1].Vulnerabilities) = 0
    /\ Len(results[2].Vulnerabilities) = 2
    /\ out[Len(out)] = Event("summary", "", 1, 2)

(***************************************************************************)
(* Properties of truncate (SpecTruncate).                                  *)
(***************************************************************************)
\* C16: truncate(s, max) returns s unchanged when s fits in max, and otherwise
\* a string of at most max characters that is a prefix of s followed by "...".
C16_TruncateWithinBudget ==
    trState = "returned" =>
        IF Len(trText) <= trMax
        THEN trResult = trText
        ELSE /\ Len(trResult) <= trMax
             /\ \E k \in 0..Len(trText) : trResult = SubSeq(trText, 1, k) \o ellipsis

(***************************************************************************)
(* Properties of the printed blocks (SpecReport).                          *)
(***************************************************************************)
Reported == rpState = "returned"

\* A printed line as one string, and its width on the terminal.
Content(l) == l.pre \o l.text \o l.post
VisibleWidth(l) == Len(SelectSeq(Content(l), LAMBDA t : t \notin Escapes))

\* The line holds an OSC-8 hyperlink to url: ESC ]8;; url ESC \, some visible
\* text, ESC ]8;; ESC \.
HasLinkTo(ts, url) ==
    \E p \in 1..Len(ts) :
        /\ ts[p] = OSC8
        /\ p + Len(url) + 1 <= Len(ts)
        /\ SubSeq(ts, p + 1, p + Len(url)) = url
        /\ ts[p + Len(url) + 1] = ST
        /\ \E q \in (p + Len(url) + 3)..(Len(ts) - 1) : ts[q] = OSC8 /\ ts[q + 1] = ST

\* C15: every vulnerability entry rendered by the report contains an OSC-8
\* hyperlink whose target is that vulnerability's reference URL, whether or
\* not an upgrade hint was extracted.
C15_EveryEntryHasReferenceLink ==
    Reported =>
        \A i \in 1..Len(rpResults) :
            \A j \in 1..Len(rpResults[i].Vulnerabilities) :
                \E k \in 1..Len(rpLines) :
                    HasLinkTo(Content(rpLines[k]), rpResults[i].Vulnerabilities[j].Reference)

LineIndexes(kind) ==
    SelectSeq([i \in 1..Len(rpLines) |-> i], LAMBDA i : rpLines[i].kind = kind)

\* The reports that must get a block, in response order.
Rendered == SelectSeq(rpResults, LAMBDA r : Len(r.Vulnerabilities) >= 1)

\* The lines where an entry starts within lines a..b.
EntryStarts(a, b) ==
    SelectSeq([i \in 1..Len(rpLines) |-> i],
              LAMBDA i : a < i /\ i < b /\ rpLines[i].kind = "heading" /\ rpLines[i].first)

SeparatorsBetween(a, b) ==
    Cardinality({i \in (a + 1)..(b - 1) : rpLines[i].kind = "separator"})

\* Block k, from its top border at line a to its bottom border at line b,
\* is the block of report r.
IsBlockOf(a, b, r) ==
    LET n == Len(r.Vulnerabilities)
        starts == EntryStarts(a, b)
    IN  /\ a + 2 < b
        /\ rpLines[a + 1].kind = "header" /\ rpLines[a + 1].text = r.Coordinates
        /\ rpLines[a + 2].kind = "separator"
        /\ \A i \in (a + 3)..(b - 1) : rpLines[i].kind \in {"heading", "row", "separator"}
        /\ Len(starts) = n
        /\ starts[1] = a + 3
        /\ SeparatorsBetween(a, b) = 1 + (n - 1)
        /\ \A j \in 1..(n - 1) : SeparatorsBetween(starts[j], starts[j + 1]) = 1
                                     /\ rpLines[starts[j + 1] - 1].kind = "separator"
        /\ SeparatorsBetween(starts[n], b) = 0
        /\ \A j \in 1..n :
               \E i \in starts[j]..(IF j < n THEN starts[j + 1] ELSE b) :
                   /\ rpLines[i].kind = "row"
                   /\ rpLines[i].label = labelReference
                   /\ rpLines[i].text = r.Vulnerabilities[j].Reference

\* C17: output is emitted only for the reports with at least one
\* vulnerability, in response order; each such report with n vulnerabilities
\* gets exactly one block of one top border, the dependency header, one
\* separator under it, n entries in response order with one separator between
\* each consecutive pair and none after the last, and one bottom border; all
\* borders and separators have the same width; a report without
\* vulnerabilities produces no output.
C17_BlockLayout ==
    Reported =>
        LET tops == LineIndexes("top")
            bottoms == LineIndexes("bottom")
        IN  /\ Len(tops) = Len(Rendered) /\ Len(bottoms) = Len(Rendered)
            /\ \A k \in 1..Len(Rendered) :
                   /\ tops[k] = (IF k = 1 THEN 1 ELSE bottoms[k - 1] + 1)
                   /\ IsBlockOf(tops[k], bottoms[k], Rendered[k])
            /\ Len(rpLines) = (IF Rendered = <<>> THEN 1 ELSE bottoms[Len(bottoms)] + 1)
            /\ rpLines[Len(rpLines)].kind \in {"clean", "summary"}
            /\ \A i \in 1..Len(rpLines) :
                   rpLines[i].kind \in {"top", "separator", "bottom"}
                       => VisibleWidth(rpLines[i]) = boxWidth + 2

\* A report without vulnerabilities followed by one with two: one block, with
\* the separator under the header and one separator between the two entries.
C17_Witness ==
    /\ Reported
    /\ Len(rpResults) = 2
    /\ Len(rpResults[1].Vulnerabilities) = 0
    /\ Len(rpResults[2].Vulnerabilities) = 2
    /\ Len(LineIndexes("top")) = 1
    /\ Len(LineIndexes("separator")) = 2
    /\ rpLines[Len(rpLines)].kind = "summary"

\* The display column at which the text of a line starts.
TextColumn(l) == Len(SelectSeq(l.pre, LAMBDA t : t \notin Escapes))

\* The first line of the row that continuation line i belongs to.
RowStart(i) ==
    CHOOSE j \in 1..(i - 1) :
        /\ rpLines[j].kind = "row" /\ rpLines[j].first
        /\ \A k \in (j + 1)..i : ~rpLines[k].first

\* C18: whenever a value wraps onto more than one line, the text of every
\* continuation line starts at the display column of the value text on the
\* first line of the row, for every label.
C18_ContinuationAligned ==
    Reported =>
        \A i \in 1..Len(rpLines) :
            (rpLines[i].kind = "row" /\ ~rpLines[i].first)
                => TextColumn(rpLines[i]) = TextColumn(rpLines[RowStart(i)])

\* The wrap width used for the text of a line inside a block.
WrapWidthOf(l) ==
    IF l.kind = "header" THEN boxWidth - headerMargin
    ELSE IF l.kind = "heading" THEN boxWidth - headingMargin
    ELSE boxWidth - Len(l.label) - rowMargin

NoLongWord(l) ==
    \A k \in 1..Len(Fields(l.text)) : Len(Fields(l.text)[k]) <= WrapWidthOf(l)

\* C19: every header, heading and row line of a block, first or continuation,
\* is at most as wide on the terminal as the borders (width + 2 columns),
\* provided no word of its text is longer than the wrap width of the line.
C19_LinesWithinBorders ==
    Reported =>
        \A i \in 1..Len(rpLines) :
            (rpLines[i].kind \in {"header", "heading", "row"} /\ NoLongWord(rpLines[i]))
                => VisibleWidth(rpLines[i]) <= boxWidth + 2

====
